---- MODULE Spec2Model ----
(***************************************************************************)
(* The Lox scanner of src/src/main.rs (struct Scanner, scan_tokens and its *)
(* helpers) as a state machine.                                            *)
(*                                                                         *)
(* A character is a string: an ASCII character is the one-character string *)
(* of itself, a non-ASCII character is named by its code point ("U+00E9"). *)
(* A Rust String / &str is a sequence of characters; byte offsets into it  *)
(* are computed with LenUtf8, as the code's cursor is a byte offset.       *)
(* One step of the model is one iteration of the main loop of scan_tokens  *)
(* (one action per match arm), or one iteration / the exit of a helper     *)
(* loop (skip_line_comment, scan_number, identifier).                      *)
(* A Rust panic (slicing &str off a character boundary, unwrap of None)    *)
(* aborts the scan: in the model no action is enabled and pc never         *)
(* becomes "done".                                                         *)
(***************************************************************************)
EXTENDS Naturals, Sequences, FiniteSets, TLC

VARIABLES
    source,         \* Scanner.source
    tokens,         \* Scanner.tokens
    current,        \* Scanner.current: byte offset of the cursor
    line,           \* Scanner.line
    in_string,      \* Scanner.in_string
    string_buffer,  \* Scanner.string_buffer
    number,         \* local `number` of scan_number
    identifier,     \* local `identifier` of identifier()
    pc,             \* position in scan_tokens: the loop that runs next
    start,          \* history: the cursor at the head of the last main-loop iteration
    opened,         \* history: the cursor just after the quote that last entered string mode
    origins         \* history: for each token, the byte offset of its first character

vars == <<source, tokens, current, line, in_string, string_buffer,
          number, identifier, pc, start, opened, origins>>

(***************************************************************************)
(* Bounds of the model and the inputs it scans.                            *)
(***************************************************************************)
MaxLen == 3

\* One or more characters of every class the dispatch of scan_tokens tells apart.
Alphabet ==
    {"\n", ".", "=", "!", "\"", "/", "1", " ", "o", "r", "_", "@", "U+00E9"}

\* Longer inputs: the examples of the specification and the cases of the claims.
Examples ==
    { <<"(", "{", "}", ")">>,
      <<"!", "=">>,
      <<"1", "2", "3", ".">>,
      <<"\"", "a", "b", "c">>,
      <<"c", "l", "a", "s", "s", "r", "o", "o", "m">>,
      <<"c", "l", "a", "s", "s">>,
      <<"C", "l", "a", "s", "s">>,
      <<"f", "o", "r", "_", "1", " ", "f", "o", "r">>,
      <<"\"", "a", "(", "b", "\"">>,
      <<"\"", "a", "1", ".", "5", "b", "\"">>,
      <<"\"", "a", "/", "/", "b", "\"", "\n", "c", "\"">>,
      <<"\"", "a", "\n", "b", "\"", "\n", "@">>,
      <<"\"", "a", "!", "=", "b", "\"">>,
      <<"1", "2", ".", "3", "4", ".", "5">>,
      <<"1", ".", "2", ".", "x">>,
      <<"9", ".", ".", "0">>,
      <<"/", "/", " ", "\"", "x", "\n", "\n", "o", "r">>,
      <<"a", "@", "b", "\n", "#", "1">>,
      <<"<", "=", ">", "=", "=", "=", "=", "!", "<", ">">>,
      <<"x", "U+00A0", "U+20AC", "\t", "y">>,
      <<"\"", "U+00E9", "U+00A0", "\t", "\\", "\"">>,
      <<"\"", "\n", "\n">>,
      <<"1", "\n", "/", "/", "\n", "/", "2">>,
      <<"_", "a", "_", "b">>,
      <<"(", ")", "{", "}", ",", ".", "-", "+", ";", "*">>,
      <<"\"", "a", "\"", " ", "x", "\"", "b", "\"">>,
      <<"/", "1", "/", "/", "\"", "=", "\n", "/">> }

Sources == UNION {[1..k -> Alphabet] : k \in 0..MaxLen} \cup Examples

(***************************************************************************)
(* Characters.                                                             *)
(***************************************************************************)
AsciiDigits == {"0", "1", "2", "3", "4", "5", "6", "7", "8", "9"}

AsciiLetters ==
    {"a", "b", "c", "d", "e", "f", "g", "h", "i", "j", "k", "l", "m",
     "n", "o", "p", "q", "r", "s", "t", "u", "v", "w", "x", "y", "z",
     "A", "B", "C", "D", "E", "F", "G", "H", "I", "J", "K", "L", "M",
     "N", "O", "P", "Q", "R", "S", "T", "U", "V", "W", "X", "Y", "Z"}

\* char::len_utf8: the characters of the model outside ASCII are U+00E9 and
\* U+00A0 (two bytes) and U+20AC (three bytes).
LenUtf8(ch) ==
    CASE ch \in {"U+00E9", "U+00A0"} -> 2
      [] ch = "U+20AC" -> 3
      [] OTHER -> 1

\* char::is_ascii_digit
IsAsciiDigit(ch) == ch \in AsciiDigits

\* char::is_ascii_alphabetic
IsAsciiAlphabetic(ch) == ch \in AsciiLetters

\* char::is_ascii_alphanumeric
IsAsciiAlphanumeric(ch) == ch \in AsciiLetters \cup AsciiDigits

\* char::is_whitespace (Unicode White_Space), on the characters of the model
\* Mutant of IsWhitespace: char::is_ascii_whitespace, no U+00A0.
IsAsciiWhitespace(ch) == ch \in {" ", "\t", "\n", "\r", "\f"}

IsWhitespace(ch) == ch \in {" ", "\t", "\n", "\r", "\f", "U+00A0"}

(***************************************************************************)
(* Option<T>: None is the empty sequence, Some(x) the one-element one.     *)
(***************************************************************************)
None == <<>>
Some(x) == <<x>>

(***************************************************************************)
(* &str slicing and the cursor.                                            *)
(***************************************************************************)
RECURSIVE ByteLen(_)
\* str::len of a sequence of characters: its length in bytes
ByteLen(s) == IF s = <<>> THEN 0 ELSE LenUtf8(Head(s)) + ByteLen(Tail(s))

\* self.source.len()
SourceLen == ByteLen(source)

\* Whether &self.source[off..] is a valid slice; Rust panics otherwise.
IsCharBoundary(off) ==
    \E i \in 0..Len(source) : ByteLen(SubSeq(source, 1, i)) = off

\* self.source[off..].chars(), for a valid slice
Chars(off) ==
    LET i == CHOOSE i \in 0..Len(source) : ByteLen(SubSeq(source, 1, i)) = off
    IN  SubSeq(source, i + 1, Len(source))

\* Scanner::peek with the cursor at off
Peek(off) == IF Chars(off) = <<>> THEN None ELSE Some(Chars(off)[1])

\* Scanner::peek_next with the cursor at off
PeekNext(off) == IF Len(Chars(off)) < 2 THEN None ELSE Some(Chars(off)[2])

\* Mutant of Advance: the cursor counts characters, not bytes (current += 1).
AdvanceOneByte(off) == IF Peek(off) = None THEN off ELSE off + 1

\* Scanner::advance with the cursor at off: the cursor it leaves (the
\* character it returns is Peek(off)); at the end it leaves the cursor alone.
Advance(off) ==
    IF Peek(off) = None THEN off ELSE off + LenUtf8(Peek(off)[1])

\* Mutant of MatchNext: any following character is taken for the expected one.
MatchNextAny(off, expected) == Peek(off) # None

\* Scanner::match_next with the cursor at off: its result (when TRUE the
\* cursor is advanced by the caller's Advance(off)).
MatchNext(off, expected) == Peek(off) # None /\ Peek(off)[1] = expected

\* Scanner::at_end
AtEnd == current >= SourceLen

(***************************************************************************)
(* Tokens.                                                                 *)
(***************************************************************************)
\* TokenType variants
Plain(kind) == [kind |-> kind]
String(s) == [kind |-> "String", s |-> s]
Number(val) == [kind |-> "Number", val |-> val]
Identifier(ident) == [kind |-> "Identifier", ident |-> ident]
Reserved(word) == [kind |-> "Reserved", word |-> word]
Error(ch, l) == [kind |-> "Error", ch |-> ch, line |-> l]

\* struct Token
Token(token_type, l) == [token_type |-> token_type, line |-> l]

\* Scanner::push (and the inlined self.tokens.push(Token { .., line: self.line }))
Push(toks, kind) == Append(toks, Token(kind, line))

\* History: origins extended by the offset off for every token the step pushes
Grown(off) ==
    origins \o [i \in 1..(Len(tokens') - Len(tokens)) |-> off]

\* Mutant of Punctuation: the ')' arm pushes the kind of the '(' arm.
PunctuationCopied ==
    ( "(" :> "LeftParen" @@ ")" :> "LeftParen" @@ "{" :> "LeftBrace" @@
      "}" :> "RightBrace" @@ "," :> "Comma" @@ "." :> "Dot" @@
      "-" :> "Minus" @@ "+" :> "Plus" @@ "*" :> "Star" @@ ";" :> "Semicolon" )

\* The fixed punctuation arms of scan_tokens
Punctuation ==
    ( "(" :> "LeftParen" @@ ")" :> "RightParen" @@ "{" :> "LeftBrace" @@
      "}" :> "RightBrace" @@ "," :> "Comma" @@ "." :> "Dot" @@
      "-" :> "Minus" @@ "+" :> "Plus" @@ "*" :> "Star" @@ ";" :> "Semicolon" )

\* The arms of scan_tokens that look ahead for '=': the one-character kind
OneCharKind ==
    ( "=" :> "Equals" @@ ">" :> "Greater" @@ "<" :> "LessThan" @@ "!" :> "Bang" )

\* ... and the two-character kind
TwoCharKind ==
    ( "=" :> "DoubleEquals" @@ ">" :> "GreaterEquals" @@
      "<" :> "LessThanEquals" @@ "!" :> "BangEquals" )

\* The map built by Scanner::identifier
ReservedMap ==
    ( <<"a", "n", "d">> :> "AND" @@
      <<"c", "l", "a", "s", "s">> :> "CLASS" @@
      <<"e", "l", "s", "e">> :> "ELSE" @@
      <<"f", "a", "l", "s", "e">> :> "FALSE" @@
      <<"f", "o", "r">> :> "FOR" @@
      <<"f", "u", "n">> :> "FUN" @@
      <<"i", "f">> :> "IF" @@
      <<"n", "i", "l">> :> "NIL" @@
      <<"o", "r">> :> "OR" @@
      <<"p", "r", "i", "n", "t">> :> "PRINT" @@
      <<"r", "e", "t", "u", "r", "n">> :> "RETURN" @@
      <<"s", "u", "p", "e", "r">> :> "SUPER" @@
      <<"t", "h", "i", "s">> :> "THIS" @@
      <<"t", "r", "u", "e">> :> "TRUE" @@
      <<"v", "a", "r">> :> "VAR" @@
      <<"w", "h", "i", "l", "e">> :> "WHILE" )

\* Mutant of Classify: the reserved word is looked for at the front of the run.
ClassifyByPrefix(ident) ==
    LET hits == {w \in DOMAIN ReservedMap :
                    Len(w) <= Len(ident) /\ SubSeq(ident, 1, Len(w)) = w}
    IN  IF hits # {}
        THEN Reserved(ReservedMap[CHOOSE w \in hits : TRUE])
        ELSE Identifier(ident)

\* match map.get(identifier.as_str()) { Some(r) => Reserved(*r), None => Identifier(identifier) }
Classify(ident) ==
    IF ident \in DOMAIN ReservedMap
    THEN Reserved(ReservedMap[ident])
    ELSE Identifier(ident)

\* impl fmt::Display for Token, the Error arm: which of the two messages
DisplayError(token) ==
    IF token.token_type.ch = "\""
    THEN "Unterminated String"
    ELSE "Unexpected character"

\* val.parse::<f64>() is Ok, for a spelling made of ASCII digits and '.' (the
\* only characters scan_number appends): at least one digit, at most one '.'.
\* Any other character is rejected here (signs, exponents, "inf" and "nan"
\* are not modelled).
ParseF64Ok(val) ==
    /\ \A i \in 1..Len(val) : val[i] \in AsciiDigits \cup {"."}
    /\ \E i \in 1..Len(val) : val[i] \in AsciiDigits
    /\ Cardinality({i \in 1..Len(val) : val[i] = "."}) <= 1

\* impl fmt::Display for Token, the Number arm: which of the two renderings
DisplayNumber(token) ==
    IF ParseF64Ok(token.token_type.val)
    THEN "NUMBER"
    ELSE "Invalid number literal"

(***************************************************************************)
(* Scanner::new                                                            *)
(***************************************************************************)
Init ==
    /\ source \in Sources
    /\ tokens = <<>>
    /\ current = 0
    /\ line = 1
    /\ in_string = FALSE
    /\ string_buffer = <<>>
    /\ number = <<>>
    /\ identifier = <<>>
    /\ pc = "scan"
    /\ start = 0
    /\ opened = 0
    /\ origins = <<>>

(***************************************************************************)
(* Scanner::scan_tokens: the main loop.                                    *)
(***************************************************************************)
\* `while !self.at_end() { let ch = self.advance().unwrap();`: the loop is
\* entered and advance() yields a character.
LoopHead ==
    /\ pc = "scan"
    /\ ~AtEnd
    /\ IsCharBoundary(current)
    /\ Peek(current) # None

\* The character advance() returns at the head of the loop
Ch == Peek(current)[1]

\* The characters with a match arm of their own, before the guarded `_` arms
OwnArm == {"\n", "\"", "/"} \cup DOMAIN Punctuation \cup DOMAIN OneCharKind

\* Mutant of ScanNewline: a literal may not span lines, the newline ends it
\* with the unterminated-string error.
ScanNewlineEndsString ==
    /\ LoopHead
    /\ Ch = "\n"
    /\ start' = current
    /\ current' = Advance(current)
    /\ line' = line + 1
    /\ tokens' = IF in_string THEN Push(tokens, Error("\"", line)) ELSE tokens
    /\ in_string' = FALSE
    /\ string_buffer' = <<>>
    /\ UNCHANGED <<source, number, identifier, pc, opened>>
    /\ origins' = Grown(current)

\* Mutant of ScanNewline: the in_string arm comes first, so a newline inside
\* a literal is stored and not counted.
ScanNewlineOutsideString ==
    /\ LoopHead
    /\ Ch = "\n"
    /\ start' = current
    /\ current' = Advance(current)
    /\ line' = IF in_string THEN line ELSE line + 1
    /\ string_buffer' = IF in_string THEN Append(string_buffer, Ch)
                                     ELSE string_buffer
    /\ UNCHANGED <<source, tokens, in_string, number, identifier, pc, opened,
                   origins>>

\* '\n' => { self.line += 1; }
ScanNewline ==
    /\ LoopHead
    /\ Ch = "\n"
    /\ start' = current
    /\ current' = Advance(current)
    /\ line' = line + 1
    /\ UNCHANGED <<source, tokens, in_string, string_buffer, number,
                   identifier, pc, opened,
                   origins>>

\* '(' => self.push(TokenType::LeftParen), ... ';' => self.push(TokenType::Semicolon)
ScanPunctuation ==
    /\ LoopHead
    /\ Ch \in DOMAIN Punctuation
    /\ start' = current
    /\ current' = Advance(current)
    /\ tokens' = Push(tokens, Plain(Punctuation[Ch]))
    /\ UNCHANGED <<source, line, in_string, string_buffer, number,
                   identifier, pc, opened>>
    /\ origins' = Grown(current)

\* '=' | '>' | '<' | '!' => if self.match_next('=') { two-character } else { one-character }
ScanOperator ==
    /\ LoopHead
    /\ Ch \in DOMAIN OneCharKind
    /\ IsCharBoundary(Advance(current))
    /\ start' = current
    /\ IF MatchNext(Advance(current), "=")
       THEN /\ current' = Advance(Advance(current))
            /\ tokens' = Push(tokens, Plain(TwoCharKind[Ch]))
       ELSE /\ current' = Advance(current)
            /\ tokens' = Push(tokens, Plain(OneCharKind[Ch]))
    /\ UNCHANGED <<source, line, in_string, string_buffer, number,
                   identifier, pc, opened>>
    /\ origins' = Grown(current)

\* Mutant of ScanQuote: the closing quote does not clear the buffer.
ScanQuoteKeepsBuffer ==
    /\ LoopHead
    /\ Ch = "\""
    /\ start' = current
    /\ current' = Advance(current)
    /\ in_string' = ~in_string
    /\ IF ~in_string'
       THEN /\ tokens' = Append(tokens, Token(String(string_buffer), line))
            /\ opened' = opened
       ELSE /\ opened' = Advance(current)
            /\ tokens' = tokens
    /\ UNCHANGED <<source, line, string_buffer, number, identifier, pc>>
    /\ origins' = Grown(opened - 1)

\* Mutant of ScanQuote: a quote after a backslash inside a literal is taken
\* for an escaped quote and stored.
ScanQuoteEscaped ==
    /\ LoopHead
    /\ Ch = "\""
    /\ start' = current
    /\ current' = Advance(current)
    /\ LET before == SubSeq(source, 1, Len(source) - Len(Chars(current)))
           escaped == /\ in_string
                      /\ before # <<>>
                      /\ before[Len(before)] = "\\"
       IN  /\ in_string' = IF escaped THEN in_string ELSE ~in_string
           /\ IF escaped
              THEN /\ string_buffer' = Append(string_buffer, Ch)
                   /\ UNCHANGED <<tokens, opened>>
              ELSE IF in_string
                   THEN /\ tokens' = Append(tokens,
                                            Token(String(string_buffer), line))
                        /\ string_buffer' = <<>>
                        /\ opened' = opened
                   ELSE /\ opened' = Advance(current)
                        /\ UNCHANGED <<tokens, string_buffer>>
    /\ UNCHANGED <<source, line, number, identifier, pc>>
    /\ origins' = Grown(opened - 1)

\* '"' => { self.in_string = !self.in_string; if !self.in_string { push String; clear } }
ScanQuote ==
    /\ LoopHead
    /\ Ch = "\""
    /\ start' = current
    /\ current' = Advance(current)
    /\ in_string' = ~in_string
    /\ IF ~in_string'
       THEN /\ tokens' = Append(tokens, Token(String(string_buffer), line))
            /\ string_buffer' = <<>>
            /\ opened' = opened
       ELSE /\ opened' = Advance(current)
            /\ UNCHANGED <<tokens, string_buffer>>
    /\ UNCHANGED <<source, line, number, identifier, pc>>
    /\ origins' = Grown(opened - 1)

\* '/' => if self.match_next('/') { self.skip_line_comment(); } else { push Slash }
ScanSlash ==
    /\ LoopHead
    /\ Ch = "/"
    /\ IsCharBoundary(Advance(current))
    /\ start' = current
    /\ IF MatchNext(Advance(current), "/")
       THEN /\ current' = Advance(Advance(current))
            /\ pc' = "skip_line_comment"
            /\ tokens' = tokens
       ELSE /\ current' = Advance(current)
            /\ pc' = pc
            /\ tokens' = Push(tokens, Plain("Slash"))
    /\ UNCHANGED <<source, line, in_string, string_buffer, number,
                   identifier, opened>>
    /\ origins' = Grown(current)

\* _ if ch.is_ascii_digit() => { let val = self.scan_number(ch); ...: the call,
\* up to `number.push(curr)`
ScanDigit ==
    /\ LoopHead
    /\ Ch \notin OwnArm
    /\ IsAsciiDigit(Ch)
    /\ start' = current
    /\ current' = Advance(current)
    /\ number' = <<Ch>>
    /\ pc' = "scan_number_int"
    /\ UNCHANGED <<source, tokens, line, in_string, string_buffer,
                   identifier, opened,
                   origins>>

\* _ if self.in_string => { self.string_buffer.push(ch); }
ScanStringChar ==
    /\ LoopHead
    /\ Ch \notin OwnArm
    /\ ~IsAsciiDigit(Ch)
    /\ in_string
    /\ start' = current
    /\ current' = Advance(current)
    /\ string_buffer' = Append(string_buffer, Ch)
    /\ UNCHANGED <<source, tokens, line, in_string, number, identifier,
                   pc, opened,
                   origins>>

\* _ if ch.is_whitespace() => {}
ScanWhitespace ==
    /\ LoopHead
    /\ Ch \notin OwnArm
    /\ ~IsAsciiDigit(Ch)
    /\ ~in_string
    /\ IsWhitespace(Ch)
    /\ start' = current
    /\ current' = Advance(current)
    /\ UNCHANGED <<source, tokens, line, in_string, string_buffer, number,
                   identifier, pc, opened,
                   origins>>

\* _ if ch.is_ascii_alphabetic() => { let ident = self.identifier(ch); ...: the
\* call, up to `identifier.push(curr)`
ScanLetter ==
    /\ LoopHead
    /\ Ch \notin OwnArm
    /\ ~IsAsciiDigit(Ch)
    /\ ~in_string
    /\ ~IsWhitespace(Ch)
    /\ IsAsciiAlphabetic(Ch)
    /\ start' = current
    /\ current' = Advance(current)
    /\ identifier' = <<Ch>>
    /\ pc' = "identifier"
    /\ UNCHANGED <<source, tokens, line, in_string, string_buffer, number,
                   opened,
                   origins>>

\* Mutant of ScanUnexpected: the error is fatal, the scan ends with it.
ScanUnexpectedFatal ==
    /\ LoopHead
    /\ Ch \notin OwnArm
    /\ ~IsAsciiDigit(Ch)
    /\ ~in_string
    /\ ~IsWhitespace(Ch)
    /\ ~IsAsciiAlphabetic(Ch)
    /\ start' = current
    /\ current' = SourceLen
    /\ tokens' = Push(tokens, Error(Ch, line))
    /\ UNCHANGED <<source, line, in_string, string_buffer, number,
                   identifier, pc, opened>>
    /\ origins' = Grown(current)

\* _ => self.tokens.push(Token { token_type: TokenType::Error(ch, self.line), .. })
ScanUnexpected ==
    /\ LoopHead
    /\ Ch \notin OwnArm
    /\ ~IsAsciiDigit(Ch)
    /\ ~in_string
    /\ ~IsWhitespace(Ch)
    /\ ~IsAsciiAlphabetic(Ch)
    /\ start' = current
    /\ current' = Advance(current)
    /\ tokens' = Push(tokens, Error(Ch, line))
    /\ UNCHANGED <<source, line, in_string, string_buffer, number,
                   identifier, pc, opened>>
    /\ origins' = Grown(current)

\* Mutant of Finish: returns right after reporting the unterminated string.
FinishReturnsAfterError ==
    /\ pc = "scan"
    /\ AtEnd
    /\ tokens' = IF in_string THEN Push(tokens, Error("\"", line))
                              ELSE Push(tokens, Plain("Eof"))
    /\ pc' = "done"
    /\ UNCHANGED <<source, current, line, in_string, string_buffer, number,
                   identifier, start, opened>>
    /\ origins' = Grown(current)

\* Mutant of Finish: the unclosed literal is emitted as a String token.
FinishEmitsOpenString ==
    /\ pc = "scan"
    /\ AtEnd
    /\ tokens' = Push(IF in_string THEN Push(tokens, String(string_buffer))
                                   ELSE tokens,
                      Plain("Eof"))
    /\ pc' = "done"
    /\ UNCHANGED <<source, current, line, in_string, string_buffer, number,
                   identifier, start, opened>>
    /\ origins' = Grown(current)

\* After the loop: the unterminated-string Error, then Eof; return self.tokens
Finish ==
    /\ pc = "scan"
    /\ AtEnd
    /\ tokens' = Push(IF in_string THEN Push(tokens, Error("\"", line)) ELSE tokens,
                      Plain("Eof"))
    /\ pc' = "done"
    /\ UNCHANGED <<source, current, line, in_string, string_buffer, number,
                   identifier, start, opened>>
    /\ origins' = Grown(current)

(***************************************************************************)
(* Scanner::skip_line_comment                                              *)
(***************************************************************************)
\* Mutant of SkipLineCommentStep: the loop has no break, it eats the newline.
SkipLineCommentStepEatsNewline ==
    /\ pc = "skip_line_comment"
    /\ IsCharBoundary(current)
    /\ Peek(current) # None
    /\ current' = Advance(current)
    /\ UNCHANGED <<source, tokens, line, in_string, string_buffer, number,
                   identifier, pc, start, opened, origins>>

\* while let Some(ch) = self.peek() { if ch == '\n' { break; } self.advance(); }
SkipLineCommentStep ==
    /\ pc = "skip_line_comment"
    /\ IsCharBoundary(current)
    /\ Peek(current) # None
    /\ Peek(current)[1] # "\n"
    /\ current' = Advance(current)
    /\ UNCHANGED <<source, tokens, line, in_string, string_buffer, number,
                   identifier, pc, start, opened,
                   origins>>

\* the loop ends: peek() is None, or the character is '\n' (break)
SkipLineCommentExit ==
    /\ pc = "skip_line_comment"
    /\ IsCharBoundary(current)
    /\ IF Peek(current) = None THEN TRUE ELSE Peek(current)[1] = "\n"
    /\ pc' = "scan"
    /\ UNCHANGED <<source, tokens, current, line, in_string, string_buffer,
                   number, identifier, start, opened,
                   origins>>

(***************************************************************************)
(* Scanner::scan_number                                                    *)
(***************************************************************************)
\* peek() yields an ASCII digit
PeekIsDigit(off) == Peek(off) # None /\ IsAsciiDigit(Peek(off)[1])

\* Mutant of HasFraction: the character after the '.' is not looked at.
HasFractionAnyDot(off) == Peek(off) = Some(".")

\* if let (Some('.'), Some(next_digit)) = (self.peek(), self.peek_next())
\*     { if next_digit.is_ascii_digit() {
HasFraction(off) ==
    /\ Peek(off) = Some(".")
    /\ PeekNext(off) # None
    /\ IsAsciiDigit(PeekNext(off)[1])

\* first loop: while let Some(ch) = self.peek() { if digit { push; advance } else { break } }
ScanNumberIntStep ==
    /\ pc = "scan_number_int"
    /\ IsCharBoundary(current)
    /\ PeekIsDigit(current)
    /\ number' = Append(number, Peek(current)[1])
    /\ current' = Advance(current)
    /\ UNCHANGED <<source, tokens, line, in_string, string_buffer,
                   identifier, pc, start, opened,
                   origins>>

\* the first loop ends and a fraction follows: number.push('.'); self.advance();
ScanNumberDot ==
    /\ pc = "scan_number_int"
    /\ IsCharBoundary(current)
    /\ ~PeekIsDigit(current)
    /\ HasFraction(current)
    /\ number' = Append(number, ".")
    /\ current' = Advance(current)
    /\ pc' = "scan_number_frac"
    /\ UNCHANGED <<source, tokens, line, in_string, string_buffer,
                   identifier, start, opened,
                   origins>>

\* second loop, as the first
\* Mutant of ScanNumberFracStep: the fraction loop also consumes dots.
ScanNumberFracStepTakesDots ==
    /\ pc = "scan_number_frac"
    /\ IsCharBoundary(current)
    /\ IF Peek(current) = Some(".") THEN TRUE ELSE PeekIsDigit(current)
    /\ number' = Append(number, Peek(current)[1])
    /\ current' = Advance(current)
    /\ UNCHANGED <<source, tokens, line, in_string, string_buffer,
                   identifier, pc, start, opened,
                   origins>>

ScanNumberFracStep ==
    /\ pc = "scan_number_frac"
    /\ IsCharBoundary(current)
    /\ PeekIsDigit(current)
    /\ number' = Append(number, Peek(current)[1])
    /\ current' = Advance(current)
    /\ UNCHANGED <<source, tokens, line, in_string, string_buffer,
                   identifier, pc, start, opened,
                   origins>>

\* return number; and the caller's self.tokens.push(Token { Number(val), line })
ScanNumberReturn ==
    /\ pc \in {"scan_number_int", "scan_number_frac"}
    /\ IsCharBoundary(current)
    /\ ~PeekIsDigit(current)
    /\ pc = "scan_number_int" => ~HasFraction(current)
    /\ tokens' = Push(tokens, Number(number))
    /\ number' = <<>>
    /\ pc' = "scan"
    /\ UNCHANGED <<source, current, line, in_string, string_buffer,
                   identifier, start, opened>>
    /\ origins' = Grown(start)

(***************************************************************************)
(* Scanner::identifier                                                     *)
(***************************************************************************)
\* peek() yields a character that continues an identifier
PeekIsIdentChar(off) ==
    IF Peek(off) = None
    THEN FALSE
    ELSE IF IsAsciiAlphanumeric(Peek(off)[1]) THEN TRUE ELSE Peek(off)[1] = "_"

\* while let Some(val) = self.peek() { if alnum or '_' { push; advance } else { break } }
IdentifierStep ==
    /\ pc = "identifier"
    /\ IsCharBoundary(current)
    /\ PeekIsIdentChar(current)
    /\ identifier' = Append(identifier, Peek(current)[1])
    /\ current' = Advance(current)
    /\ UNCHANGED <<source, tokens, line, in_string, string_buffer, number,
                   pc, start, opened,
                   origins>>

\* match map.get(..) and the caller's self.tokens.push(Token { ident, line })
IdentifierReturn ==
    /\ pc = "identifier"
    /\ IsCharBoundary(current)
    /\ ~PeekIsIdentChar(current)
    /\ tokens' = Push(tokens, Classify(identifier))
    /\ identifier' = <<>>
    /\ pc' = "scan"
    /\ UNCHANGED <<source, current, line, in_string, string_buffer, number,
                   start, opened>>
    /\ origins' = Grown(start)

Next ==
    \/ ScanNewline
    \/ ScanPunctuation
    \/ ScanOperator
    \/ ScanQuote
    \/ ScanSlash
    \/ ScanDigit
    \/ ScanStringChar
    \/ ScanWhitespace
    \/ ScanLetter
    \/ ScanUnexpected
    \/ Finish
    \/ SkipLineCommentStep
    \/ SkipLineCommentExit
    \/ ScanNumberIntStep
    \/ ScanNumberDot
    \/ ScanNumberFracStep
    \/ ScanNumberReturn
    \/ IdentifierStep
    \/ IdentifierReturn

Spec == Init /\ [][Next]_vars

(***************************************************************************)
(* Definitions used to state the claims.                                   *)
(***************************************************************************)
\* The kinds of the tokens of a sequence
Kinds(toks) == [i \in 1..Len(toks) |-> toks[i].token_type.kind]

\* The tokens a step appends, when it only appends
Appended == SubSeq(tokens', Len(tokens) + 1, Len(tokens'))

\* The step only appends to the token sequence
AppendsOnly ==
    /\ Len(tokens') >= Len(tokens)
    /\ SubSeq(tokens', 1, Len(tokens)) = tokens

\* The characters of the source that lie before byte offset off
Consumed(off) ==
    LET i == CHOOSE i \in 0..Len(source) : ByteLen(SubSeq(source, 1, i)) = off
    IN  SubSeq(source, 1, i)

\* The number of occurrences of character ch in s
Count(s, ch) == Cardinality({i \in 1..Len(s) : s[i] = ch})

(***************************************************************************)
(* C1: for every input, the empty one included, the sequence scan_tokens   *)
(* returns is non-empty, its last element is Eof, and Eof occurs nowhere   *)
(* before the last position (nor in the sequence while the scan runs).     *)
(***************************************************************************)
C1_EndsWithOneEof ==
    /\ pc = "done" =>
          /\ tokens # <<>>
          /\ tokens[Len(tokens)].token_type = Plain("Eof")
          /\ \A i \in 1..(Len(tokens) - 1) : tokens[i].token_type.kind # "Eof"
    /\ pc # "done" =>
          \A i \in 1..Len(tokens) : tokens[i].token_type.kind # "Eof"

\* The empty input has been scanned: the result is the single Eof of line 1.
C1_Witness ==
    /\ pc = "done"
    /\ source = <<>>
    /\ tokens = <<Token(Plain("Eof"), 1)>>

(***************************************************************************)
(* C2: scan_tokens terminates and returns normally. Every step keeps the   *)
(* cursor on a character boundary within the source and never moves it     *)
(* backwards; every iteration of the main loop and of the helper loops     *)
(* moves it strictly forwards; after every step the scan has returned or   *)
(* can take a further step without a panic (advance() at the head of the   *)
(* main loop yields a character whenever at_end() is false); the rank,     *)
(* which no step leaves negative, strictly decreases, so the scan ends;    *)
(* and it ends with the cursor exactly at the end of the source.           *)
(***************************************************************************)
\* Twice the bytes left, plus what the loop in progress still has to do
C2_Rank ==
    2 * (SourceLen - current)
    + (CASE pc = "done" -> 0 [] pc = "scan" -> 1 [] OTHER -> 2)

\* The scan has returned, or its next step does not panic
C2_CanStep ==
    \/ pc = "done"
    \/ /\ IsCharBoundary(current)
       /\ (pc = "scan" /\ ~AtEnd) =>
             /\ Peek(current) # None
             /\ IsCharBoundary(Advance(current))

\* A step that is an iteration of a loop: not the exit of a helper loop and
\* not the end of the main loop
C2_Iteration ==
    /\ pc' # "done"
    /\ ~(pc # "scan" /\ pc' = "scan")

C2_Terminates ==
    [][ /\ current' >= current
        /\ C2_Iteration => current' > current
        /\ current' <= SourceLen
        /\ C2_CanStep'
        /\ C2_Rank' < C2_Rank
        /\ pc' = "done" => current' = SourceLen ]_vars

\* A scan through multi-byte characters and a helper loop has returned.
C2_Witness ==
    /\ pc = "done"
    /\ source = <<"x", "U+00A0", "U+20AC", "\t", "y">>
    /\ current = 8

(***************************************************************************)
(* C3: the String token emitted at a closing quote carries exactly the     *)
(* source characters between the quote that entered string mode and the    *)
(* closing quote, in order and with none dropped.                          *)
(* The code does not do this: see C3_StringCarriesLiteral's violation.     *)
(***************************************************************************)
\* The characters of the source from byte offset a up to byte offset b
Between(a, b) == SubSeq(Consumed(b), Len(Consumed(a)) + 1, Len(Consumed(b)))

\* The last main-loop iteration dispatched a quote that left string mode,
\* and nothing has run since
C3_JustClosed ==
    /\ pc = "scan"
    /\ ~in_string
    /\ current = start + 1
    /\ Peek(start) = Some("\"")

C3_StringCarriesLiteral ==
    C3_JustClosed =>
        /\ tokens # <<>>
        /\ tokens[Len(tokens)].token_type = String(Between(opened, start))

(***************************************************************************)
(* C4: while the scanner is in inside-string mode no token is emitted for  *)
(* any character but the closing quote (the token sequence does not grow   *)
(* between the opening quote and the closing quote or the end of input),   *)
(* and comment skipping, operator lookahead and number accumulation take   *)
(* place in normal mode only.                                              *)
(* The code does not do this: see C4_NoTokenInsideString's violation.      *)
(***************************************************************************)
C4_NoTokenInsideString ==
    [][ (in_string /\ in_string' /\ pc' # "done") =>
            /\ tokens' = tokens
            /\ pc' = "scan"
            /\ Len(Consumed(current')) = Len(Consumed(current)) + 1 ]_vars

(***************************************************************************)
(* C5: every token (String, Error and Eof included) is tagged with 1 plus  *)
(* the number of newlines consumed before it was emitted, the line counter *)
(* being 1 plus the number of newlines consumed after every step (those    *)
(* ending a line comment and those met inside a string literal included);  *)
(* a String token is tagged with the line of its closing quote; and the    *)
(* lines of the token sequence are non-decreasing.                         *)
(***************************************************************************)
C5_LinesCountNewlines ==
    [][ /\ AppendsOnly
        /\ line' = 1 + Count(Consumed(current'), "\n")
        /\ \A i \in 1..Len(Appended) :
              /\ Appended[i].line = 1 + Count(Consumed(current'), "\n")
              /\ Appended[i].token_type.kind = "Error" =>
                    Appended[i].token_type.line = Appended[i].line
        /\ (in_string /\ ~in_string') =>
              /\ Len(Appended) = 1
              /\ Appended[1].token_type.kind = "String"
              /\ Appended[1].line = 1 + Count(Consumed(current), "\n")
        /\ \A i \in 1..(Len(tokens') - 1) :
              tokens'[i].line <= tokens'[i + 1].line ]_vars

\* A literal that spans a newline was closed on line 2, and the scan went on
\* to line 3.
C5_Witness ==
    /\ pc = "done"
    /\ source = <<"\"", "a", "\n", "b", "\"", "\n", "@">>
    /\ [i \in 1..Len(tokens) |-> tokens[i].line] = <<2, 3, 3>>
    /\ Kinds(tokens) = <<"String", "Error", "Eof">>

(***************************************************************************)
(* C6: when the input is exhausted in inside-string mode, exactly one      *)
(* Error token carrying the quote is emitted, right before Eof and tagged  *)
(* with the line reached, and no String token is emitted for the unclosed  *)
(* literal; when it is exhausted in normal mode, no Error token carries    *)
(* the quote.                                                              *)
(***************************************************************************)
\* The number of Error tokens that carry the quote sentinel
QuoteErrors(toks) ==
    Cardinality({i \in 1..Len(toks) :
        /\ toks[i].token_type.kind = "Error"
        /\ toks[i].token_type.ch = "\""})

C6_UnterminatedString ==
    [][ /\ (in_string /\ in_string') =>
              \A i \in 1..Len(Appended) : Appended[i].token_type.kind # "String"
        /\ pc' = "done" =>
              /\ AppendsOnly
              /\ line' = 1 + Count(source, "\n")
              /\ IF in_string'
                 THEN /\ Appended = << Token(Error("\"", line'), line'),
                                       Token(Plain("Eof"), line') >>
                      /\ QuoteErrors(tokens') = 1
                 ELSE /\ Appended = << Token(Plain("Eof"), line') >>
                      /\ QuoteErrors(tokens') = 0 ]_vars

\* The input "abc (never closed) has been scanned.
C6_Witness ==
    /\ pc = "done"
    /\ source = <<"\"", "a", "b", "c">>
    /\ tokens = << Token(Error("\"", 1), 1), Token(Plain("Eof"), 1) >>

(***************************************************************************)
(* C7 (as amended): in normal mode, a dispatched character that is not a   *)
(* newline, a punctuation mark, an operator character, a quote, a slash,   *)
(* an ASCII digit, whitespace or an ASCII letter yields exactly one Error  *)
(* token carrying it and the current line; the step moves the cursor past  *)
(* that one character and changes nothing else, so the characters after it *)
(* are scanned from the very state the scanner was in before it. (The      *)
(* character still ends the lexeme before it: see C7_AsIfAbsent.)          *)
(***************************************************************************)
C7_Unexpected(c) ==
    /\ c \notin {"\n", "\"", "/", "=", ">", "<", "!",
                 "(", ")", "{", "}", ",", ".", "-", "+", ";", "*"}
    /\ c \notin AsciiDigits
    /\ c \notin AsciiLetters
    /\ ~IsWhitespace(c)

C7_UnexpectedCharacter ==
    [][ (LoopHead /\ ~in_string /\ C7_Unexpected(Ch)) =>
            /\ tokens' = Append(tokens, Token(Error(Ch, line), line))
            /\ current' = current + LenUtf8(Ch)
            /\ <<source', line', in_string', string_buffer', number',
                 identifier', pc'>>
               = <<source, line, in_string, string_buffer, number,
                   identifier, pc>> ]_vars

\* Two unexpected characters were reported, on lines 1 and 2, and the tokens
\* around them were scanned.
C7_Witness ==
    /\ pc = "done"
    /\ source = <<"a", "@", "b", "\n", "#", "1">>
    /\ tokens = << Token(Identifier(<<"a">>), 1), Token(Error("@", 1), 1),
                   Token(Identifier(<<"b">>), 1), Token(Error("#", 2), 2),
                   Token(Number(<<"1">>), 2), Token(Plain("Eof"), 2) >>

(***************************************************************************)
(* C7 (as stated), on the inputs =@= and !@= : the characters after the    *)
(* unexpected character are scanned exactly as they would be if it were    *)
(* absent, that is, the tokens other than its Error token are the tokens   *)
(* of the input without it (== and != , whose scans the first conjunct     *)
(* pins down). The code scans the '=' after the '@' as a token of its own. *)
(***************************************************************************)
\* The tokens of a sequence that are not Error tokens
WithoutErrors(toks) ==
    SelectSeq(toks, LAMBDA t : t.token_type.kind # "Error")

C7_AsIfAbsent ==
    \A c \in {"=", "!"} :
        LET absent == << Token(Plain(TwoCharKind[c]), 1),
                         Token(Plain("Eof"), 1) >>
        IN  /\ (pc = "done" /\ source = <<c, "=">>) => tokens = absent
            /\ (pc = "done" /\ source = <<c, "@", "=">>) =>
                   WithoutErrors(tokens) = absent

(***************************************************************************)
(* C8: when one of = > < ! is dispatched and the character right after it  *)
(* is '=', exactly one two-character token is emitted and both characters  *)
(* are consumed; otherwise (the end of input included) exactly one         *)
(* one-character token is emitted and only the character is consumed.      *)
(***************************************************************************)
C8_TwoCharOperators ==
    [][ (LoopHead /\ Ch \in {"=", ">", "<", "!"}) =>
            LET rest == Chars(current)
                one == CASE Ch = "=" -> "Equals" [] Ch = ">" -> "Greater"
                         [] Ch = "<" -> "LessThan" [] Ch = "!" -> "Bang"
                two == CASE Ch = "=" -> "DoubleEquals"
                         [] Ch = ">" -> "GreaterEquals"
                         [] Ch = "<" -> "LessThanEquals"
                         [] Ch = "!" -> "BangEquals"
            IN  IF Len(rest) >= 2 /\ rest[2] = "="
                THEN /\ tokens' = Append(tokens, Token(Plain(two), line))
                     /\ current' = current + 2
                ELSE /\ tokens' = Append(tokens, Token(Plain(one), line))
                     /\ current' = current + 1 ]_vars

\* "!=" was scanned as one BangEquals token.
C8_Witness ==
    /\ pc = "done"
    /\ source = <<"!", "=">>
    /\ tokens = << Token(Plain("BangEquals"), 1), Token(Plain("Eof"), 1) >>

(***************************************************************************)
(* C9: a dispatched ASCII digit starts number scanning, and the Number     *)
(* token then emitted spells the maximal run of digits from that digit,    *)
(* extended by '.' and a further maximal run of digits exactly when the    *)
(* run is followed by '.' and a digit; the cursor stops right after the    *)
(* spelling, so a '.' not followed by a digit is left and is emitted next  *)
(* as a Dot token: "123." yields Number(123), Dot, Eof.                    *)
(***************************************************************************)
\* The length of the maximal run of digits at the front of s
C9_DigitRun(s) ==
    CHOOSE k \in 0..Len(s) :
        /\ \A i \in 1..k : s[i] \in AsciiDigits
        /\ k = Len(s) \/ s[k + 1] \notin AsciiDigits

\* The spelling of the number at the front of s
C9_Spelling(s) ==
    LET k == C9_DigitRun(s)
    IN  IF Len(s) >= k + 2 /\ s[k + 1] = "." /\ s[k + 2] \in AsciiDigits
        THEN SubSeq(s, 1, k + 1 + C9_DigitRun(SubSeq(s, k + 2, Len(s))))
        ELSE SubSeq(s, 1, k)

\* A Number token was emitted by the last step
C9_JustNumber ==
    /\ pc = "scan"
    /\ tokens # <<>>
    /\ tokens[Len(tokens)].token_type.kind = "Number"
    /\ Peek(start) # None
    /\ Peek(start)[1] \in AsciiDigits
    /\ current = start + Len(tokens[Len(tokens)].token_type.val)

C9_NumberSpelling ==
    [][ /\ (LoopHead /\ Ch \in AsciiDigits) =>
              /\ pc' = "scan_number_int"
              /\ tokens' = tokens
        /\ (pc \in {"scan_number_int", "scan_number_frac"} /\ pc' = "scan") =>
              LET sp == C9_Spelling(Chars(start))
              IN  /\ Len(sp) >= 1
                  /\ tokens' = Append(tokens, Token(Number(sp), line))
                  /\ current' = start + Len(sp)
        /\ (C9_JustNumber /\ Peek(current) = Some(".")) =>
              /\ tokens' = Append(tokens, Token(Plain("Dot"), line))
              /\ current' = current + 1
        /\ (source = <<"1", "2", "3", ".">> /\ pc' = "done") =>
              tokens' = << Token(Number(<<"1", "2", "3">>), 1),
                           Token(Plain("Dot"), 1), Token(Plain("Eof"), 1) >>
      ]_vars

\* "12.34.5" was scanned: a fraction, then a '.' left to be a Dot.
C9_Witness ==
    /\ pc = "done"
    /\ source = <<"1", "2", ".", "3", "4", ".", "5">>
    /\ tokens = << Token(Number(<<"1", "2", ".", "3", "4">>), 1),
                   Token(Plain("Dot"), 1), Token(Number(<<"5">>), 1),
                   Token(Plain("Eof"), 1) >>

(***************************************************************************)
(* C10: an ASCII letter dispatched in normal mode starts identifier        *)
(* scanning, which consumes the maximal run of ASCII letters, digits and   *)
(* underscores from that letter and emits exactly one token for it:        *)
(* Reserved when the whole run is, case-sensitively, one of the sixteen    *)
(* reserved words, Identifier carrying the run otherwise (so never         *)
(* Reserved for a run a reserved word is only a proper prefix of).         *)
(***************************************************************************)
C10_ReservedWords ==
    { <<"a", "n", "d">>, <<"c", "l", "a", "s", "s">>, <<"e", "l", "s", "e">>,
      <<"f", "a", "l", "s", "e">>, <<"f", "o", "r">>, <<"f", "u", "n">>,
      <<"i", "f">>, <<"n", "i", "l">>, <<"o", "r">>,
      <<"p", "r", "i", "n", "t">>, <<"r", "e", "t", "u", "r", "n">>,
      <<"s", "u", "p", "e", "r">>, <<"t", "h", "i", "s">>,
      <<"t", "r", "u", "e">>, <<"v", "a", "r">>, <<"w", "h", "i", "l", "e">> }

\* The maximal run of letters, digits and underscores at the front of s
C10_Run(s) ==
    LET word == AsciiLetters \cup AsciiDigits \cup {"_"}
        k == CHOOSE k \in 0..Len(s) :
                /\ \A i \in 1..k : s[i] \in word
                /\ k = Len(s) \/ s[k + 1] \notin word
    IN  SubSeq(s, 1, k)

C10_IdentifierOrReserved ==
    [][ /\ (LoopHead /\ ~in_string /\ Ch \in AsciiLetters) =>
              /\ pc' = "identifier"
              /\ tokens' = tokens
        /\ (pc = "identifier" /\ pc' = "scan") =>
              LET run == C10_Run(Chars(start))
              IN  /\ current' = start + Len(run)
                  /\ AppendsOnly
                  /\ Len(Appended) = 1
                  /\ Appended[1].line = line
                  /\ IF run \in C10_ReservedWords
                     THEN Appended[1].token_type = Reserved(ReservedMap[run])
                     ELSE Appended[1].token_type = Identifier(run)
        /\ Cardinality(C10_ReservedWords) = 16
        /\ DOMAIN ReservedMap = C10_ReservedWords ]_vars

\* "classroom" was scanned as one Identifier.
C10_Witness ==
    /\ pc = "done"
    /\ source = <<"c", "l", "a", "s", "s", "r", "o", "o", "m">>
    /\ tokens = << Token(Identifier(source), 1), Token(Plain("Eof"), 1) >>

(***************************************************************************)
(* C11: a dispatched '/' that is followed by a second '/' starts a line    *)
(* comment: no token is emitted, and the characters up to but not          *)
(* including the next newline (or up to the end of input) are consumed     *)
(* with the token sequence, the line counter, the mode and the string      *)
(* buffer unchanged; the newline that ends the comment is then dispatched  *)
(* as any newline and adds one to the line counter. A '/' not followed by  *)
(* '/' emits exactly one Slash token and consumes only itself.             *)
(***************************************************************************)
\* A line comment has just been skipped
C11_JustSkipped ==
    /\ pc = "scan"
    /\ Peek(start) = Some("/")
    /\ current >= start + 2

C11_LineComment ==
    [][ /\ (LoopHead /\ Ch = "/") =>
              LET rest == Chars(current)
              IN  /\ <<line', in_string', string_buffer'>>
                     = <<line, in_string, string_buffer>>
                  /\ IF Len(rest) >= 2 /\ rest[2] = "/"
                     THEN /\ pc' = "skip_line_comment"
                          /\ tokens' = tokens
                          /\ current' = current + 2
                     ELSE /\ pc' = "scan"
                          /\ tokens' = Append(tokens, Token(Plain("Slash"), line))
                          /\ current' = current + 1
        /\ pc = "skip_line_comment" =>
              /\ <<tokens', line', in_string', string_buffer'>>
                 = <<tokens, line, in_string, string_buffer>>
              /\ pc' \in {"skip_line_comment", "scan"}
              /\ Count(Between(start + 2, current'), "\n") = 0
              /\ pc' = "scan" =>
                    \/ current' = SourceLen
                    \/ Peek(current') = Some("\n")
        /\ (C11_JustSkipped /\ ~AtEnd) =>
              /\ Peek(current) = Some("\n")
              /\ line' = line + 1
              /\ current' = current + 1
              /\ <<tokens', in_string', string_buffer', pc'>>
                 = <<tokens, in_string, string_buffer, pc>> ]_vars

\* A comment that holds a quote and an operator was skipped on line 1, and
\* the '/' on line 2 and the one before the comment became Slash tokens.
C11_Witness ==
    /\ pc = "done"
    /\ source = <<"/", "1", "/", "/", "\"", "=", "\n", "/">>
    /\ tokens = << Token(Plain("Slash"), 1), Token(Number(<<"1">>), 1),
                   Token(Plain("Slash"), 2), Token(Plain("Eof"), 2) >>

(***************************************************************************)
(* C12: in normal mode each of ( ) { } , . - + ; * emits exactly one token *)
(* of its kind at the current line and consumes exactly that character,    *)
(* with nothing else changed; "({})" yields LeftParen, LeftBrace,          *)
(* RightBrace, RightParen, Eof.                                            *)
(***************************************************************************)
C12_Kind(c) ==
    CASE c = "(" -> "LeftParen" [] c = ")" -> "RightParen"
      [] c = "{" -> "LeftBrace" [] c = "}" -> "RightBrace"
      [] c = "," -> "Comma" [] c = "." -> "Dot" [] c = "-" -> "Minus"
      [] c = "+" -> "Plus" [] c = ";" -> "Semicolon" [] c = "*" -> "Star"

C12_FixedPunctuation ==
    [][ /\ (LoopHead /\ ~in_string
            /\ Ch \in {"(", ")", "{", "}", ",", ".", "-", "+", ";", "*"}) =>
              /\ tokens' = Append(tokens, Token(Plain(C12_Kind(Ch)), line))
              /\ current' = current + 1
              /\ <<line', in_string', string_buffer', pc'>>
                 = <<line, in_string, string_buffer, pc>>
        /\ (pc' = "done" /\ source = <<"(", "{", "}", ")">>) =>
              tokens' = << Token(Plain("LeftParen"), 1),
                           Token(Plain("LeftBrace"), 1),
                           Token(Plain("RightBrace"), 1),
                           Token(Plain("RightParen"), 1),
                           Token(Plain("Eof"), 1) >> ]_vars

\* All ten punctuation marks were scanned, each to its own kind.
C12_Witness ==
    /\ pc = "done"
    /\ source = <<"(", ")", "{", "}", ",", ".", "-", "+", ";", "*">>
    /\ Kinds(tokens) = << "LeftParen", "RightParen", "LeftBrace", "RightBrace",
                          "Comma", "Dot", "Minus", "Plus", "Semicolon", "Star",
                          "Eof" >>

(***************************************************************************)
(* C13: in normal mode, every maximal run of ASCII letters, digits and     *)
(* underscores that does not begin with a digit and is not a reserved word *)
(* is emitted as exactly one Identifier token carrying the whole run, also *)
(* when its first character is an underscore: the first character of such  *)
(* a run starts identifier scanning, which emits the run.                  *)
(* The code does not do this: see C13_EveryRunIsIdentifier's violation.    *)
(***************************************************************************)
\* The characters an identifier is made of
C13_Word == AsciiLetters \cup AsciiDigits \cup {"_"}

\* The cursor is at the first character of a maximal run
C13_RunStart ==
    LET before == Consumed(current)
    IN  before = <<>> \/ before[Len(before)] \notin C13_Word

C13_EveryRunIsIdentifier ==
    [][ /\ (LoopHead /\ ~in_string /\ Ch \in AsciiLetters \cup {"_"}
            /\ C13_RunStart) =>
              /\ pc' = "identifier"
              /\ tokens' = tokens
        /\ (pc = "identifier" /\ pc' = "scan") =>
              LET run == C10_Run(Chars(start))
              IN  run \notin C10_ReservedWords =>
                     tokens' = Append(tokens, Token(Identifier(run), line))
      ]_vars

(***************************************************************************)
(* C14: the inside-string flag is flipped by every main-loop step that     *)
(* dispatches a quote and is changed by no other step; in particular a     *)
(* quote consumed by skip_line_comment leaves it alone.                    *)
(***************************************************************************)
C14_QuoteAloneFlips ==
    [][ /\ in_string' = IF LoopHead /\ Ch = "\"" THEN ~in_string ELSE in_string
        /\ (pc = "skip_line_comment" /\ Peek(current) = Some("\"")) =>
              /\ current' = current + 1
              /\ in_string' = in_string ]_vars

\* A literal was opened, a comment inside it swallowed a quote, and the quote
\* on the next line closed the literal.
C14_Witness ==
    /\ pc = "done"
    /\ source = <<"\"", "a", "/", "/", "b", "\"", "\n", "c", "\"">>
    /\ ~in_string
    /\ tokens = << Token(String(<<"a", "c">>), 2), Token(Plain("Eof"), 2) >>

(***************************************************************************)
(* C15: whenever the scanner is in normal mode the string buffer is empty  *)
(* (so it is empty when a quote enters string mode); in string mode the    *)
(* buffer holds, in order, only characters of the source that lie after    *)
(* the opening quote, and so does the String token a closing quote emits:  *)
(* nothing of an earlier literal or from outside the literal.              *)
(***************************************************************************)
RECURSIVE IsSubsequence(_, _)
\* The characters of a occur in b, in the same order
IsSubsequence(a, b) ==
    IF a = <<>> THEN TRUE
    ELSE IF b = <<>> THEN FALSE
    ELSE IF Head(a) = Head(b) THEN IsSubsequence(Tail(a), Tail(b))
    ELSE IsSubsequence(a, Tail(b))

C15_BufferEmptyOutsideString ==
    /\ ~in_string => string_buffer = <<>>
    /\ in_string => IsSubsequence(string_buffer, Between(opened, current))
    /\ C3_JustClosed =>
          /\ tokens # <<>>
          /\ tokens[Len(tokens)].token_type.kind = "String"
          /\ IsSubsequence(tokens[Len(tokens)].token_type.s,
                           Between(opened, start))

\* Two literals with an identifier between them were scanned.
C15_Witness ==
    /\ pc = "done"
    /\ source = <<"\"", "a", "\"", " ", "x", "\"", "b", "\"">>
    /\ string_buffer = <<>>
    /\ tokens = << Token(String(<<"a">>), 1), Token(Identifier(<<"x">>), 1),
                   Token(String(<<"b">>), 1), Token(Plain("Eof"), 1) >>

(***************************************************************************)
(* C16: an Error token carries the quote exactly when it is the one the    *)
(* end-of-input handling emits for an unterminated string (the token       *)
(* before Eof of a scan that ended in string mode); so no scan holds more  *)
(* than one of them, and the rendering shows "Unterminated String" for     *)
(* that token and for no unexpected-character Error.                       *)
(***************************************************************************)
C16_QuoteSentinelOnlyAtEnd ==
    /\ QuoteErrors(tokens) <= 1
    /\ \A i \in 1..Len(tokens) :
          tokens[i].token_type.kind = "Error" =>
             LET sentinel == pc = "done" /\ in_string /\ i = Len(tokens) - 1
             IN  /\ (tokens[i].token_type.ch = "\"") <=> sentinel
                 /\ (DisplayError(tokens[i]) = "Unterminated String")
                       <=> sentinel

\* An unexpected character and an unterminated string were both reported.
C16_Witness ==
    /\ pc = "done"
    /\ source = <<"@", "\"">>
    /\ tokens = << Token(Error("@", 1), 1), Token(Error("\"", 1), 1),
                   Token(Plain("Eof"), 1) >>
    /\ DisplayError(tokens[1]) = "Unexpected character"
    /\ DisplayError(tokens[2]) = "Unterminated String"

(***************************************************************************)
(* C17: a whitespace character other than newline dispatched in normal     *)
(* mode moves the cursor past it and changes nothing else; a newline       *)
(* dispatched in either mode moves the cursor by one, adds one to the line *)
(* counter, and changes nothing else (no token, nothing appended to the    *)
(* string buffer). Comment skipping appends no token either, every other   *)
(* step appends at most one token, and the end of input appends Eof after  *)
(* at most one unterminated-string Error.                                  *)
(***************************************************************************)
C17_Blank == {" ", "\t", "\r", "\f", "U+00A0"}

C17_WhitespaceAndNewlineFrame ==
    [][ /\ (LoopHead /\ ~in_string /\ Ch \in C17_Blank) =>
              /\ current' = current + LenUtf8(Ch)
              /\ UNCHANGED <<source, tokens, line, in_string, string_buffer,
                             number, identifier, pc>>
        /\ (LoopHead /\ Ch = "\n") =>
              /\ current' = current + 1
              /\ line' = line + 1
              /\ UNCHANGED <<source, tokens, in_string, string_buffer,
                             number, identifier, pc>>
        /\ pc = "skip_line_comment" => tokens' = tokens
        /\ IF pc = "scan" /\ AtEnd
           THEN /\ Len(tokens') = Len(tokens) + (IF in_string THEN 2 ELSE 1)
                /\ tokens'[Len(tokens')] = Token(Plain("Eof"), line)
           ELSE Len(tokens') <= Len(tokens) + 1 ]_vars

\* The no-break space after x has just been dispatched in normal mode.
C17_Witness ==
    /\ source = <<"x", "U+00A0", "U+20AC", "\t", "y">>
    /\ pc = "scan"
    /\ start = 1
    /\ current = 3
    /\ ~in_string
    /\ tokens = << Token(Identifier(<<"x">>), 1) >>

(***************************************************************************)
(* C18: the spelling of every Number token is a non-empty run of ASCII     *)
(* digits, optionally followed by one '.' and another non-empty run of     *)
(* ASCII digits; it parses as f64, so the token is never rendered as an    *)
(* invalid number literal.                                                 *)
(***************************************************************************)
C18_WellFormed(val) ==
    \E k \in 1..Len(val) :
        /\ \A i \in 1..k : val[i] \in AsciiDigits
        /\ \/ k = Len(val)
           \/ /\ Len(val) >= k + 2
              /\ val[k + 1] = "."
              /\ \A j \in (k + 2)..Len(val) : val[j] \in AsciiDigits

C18_NumberWellFormed ==
    \A i \in 1..Len(tokens) :
        tokens[i].token_type.kind = "Number" =>
            /\ C18_WellFormed(tokens[i].token_type.val)
            /\ ParseF64Ok(tokens[i].token_type.val)
            /\ DisplayNumber(tokens[i]) = "NUMBER"

\* A number with a fraction was scanned and renders as a number.
C18_Witness ==
    /\ pc = "done"
    /\ source = <<"1", ".", "1">>
    /\ tokens = << Token(Number(<<"1", ".", "1">>), 1), Token(Plain("Eof"), 1) >>
    /\ DisplayNumber(tokens[1]) = "NUMBER"

(***************************************************************************)
(* C19: every step leaves the token sequence unchanged or appends tokens   *)
(* at its end (no emitted token is modified, removed or reordered), and    *)
(* the tokens stand in the order of the offsets at which their first       *)
(* characters occur in the source (for a String token, its opening quote). *)
(***************************************************************************)
C19_InSourceOrder(offs) ==
    \A i \in 1..(Len(offs) - 1) : offs[i] <= offs[i + 1]

C19_AppendOnlyInSourceOrder ==
    [][ /\ AppendsOnly
        /\ Len(origins') = Len(tokens')
        /\ C19_InSourceOrder(origins') ]_vars

====
